---- MODULE Spec2Model ----
(***************************************************************************)
(* scripts/marshal_extract.py: the offset scanner that recovers a         *)
(* marshalled object from a possibly corrupted .pyc file.                  *)
(*                                                                         *)
(* The scanner is modelled statement by statement (one action per          *)
(* statement that can raise or that has an effect outside the process).    *)
(* marshal.loads and marshal.dump are modelled at byte level for a subset  *)
(* of the marshal format: None, True, False, the NULL marker, tuples in    *)
(* both encodings, dicts, FLAG_REF and back references, and the nesting    *)
(* limit.  Bytes are integers 0..255.                                      *)
(***************************************************************************)
EXTENDS Integers, Sequences, FiniteSets, TLC

VARIABLES
    argvLen,    \* len(sys.argv)
    inKind,     \* what open(pyc_path, 'rb') / f.read() does: "ok" or an error kind
    inFile,     \* the bytes of the input file
    outPerm,    \* what open(output_path, 'wb') does: "ok" or an error kind
    outFile0,   \* the output file before the run
    outFile,    \* the output file: [exists, data]
    pc,         \* the statement the program is at
    raw,        \* the local raw
    offset,     \* the loop variable
    code,       \* the local code
    stdout,     \* lines printed to standard output
    stderr,     \* lines printed to standard error
    status,     \* the exit status, -1 while running
    called,     \* extract_code_object was entered
    inOpened,   \* the input file was opened
    attempted,  \* history: the offsets marshal.loads was called with, in order
    opened,     \* history: the offsets on whose behalf the output file was opened
    raised      \* history: the exceptions raised, [kind, step, offset]

vars == <<argvLen, inKind, inFile, outPerm, outFile0, outFile, pc, raw, offset,
          code, stdout, stderr, status, called, inOpened, attempted, opened, raised>>

(***************************************************************************)
(* Bounds of the model.                                                    *)
(***************************************************************************)
\* longest run of padding bytes placed before a payload in an input file
MaxPad == 33
\* the nesting limit of marshal (MAX_MARSHAL_STACK_DEPTH, 2000 in CPython),
\* scaled down; the deep payloads below are built relative to it
MaxDepth == 3

(***************************************************************************)
(* Program constant: range(0, min(32, len(raw))).                          *)
(***************************************************************************)
ScanLimit == 32

Min(a, b) == IF a < b THEN a ELSE b

\* raw[offset:] for a 0-based offset (empty when offset >= len(raw))
Slice(b, off) == SubSeq(b, off + 1, Len(b))

(***************************************************************************)
(* The marshal format (the subset modelled).                               *)
(***************************************************************************)
TYPE_NULL        == 48     \* '0'
TYPE_NONE        == 78     \* 'N'
TYPE_FALSE       == 70     \* 'F'
TYPE_TRUE        == 84     \* 'T'
TYPE_TUPLE       == 40     \* '(' : 4-byte count
TYPE_SMALL_TUPLE == 41     \* ')' : 1-byte count
TYPE_DICT        == 123    \* '{' : key value ... NULL
TYPE_REF         == 114    \* 'r' : 4-byte index into the reference table
TYPE_UNKNOWN     == 63     \* '?' : never a valid type code
FLAG_REF         == 128

\* A container of at least this many slots may fail to allocate (MemoryError);
\* whether it does is the environment's choice.
HugeAlloc == 2^27

\* Objects: [t, id, items].  id is the object's index in the loader's reference
\* table when it was read with FLAG_REF (its identity: a back reference yields
\* the same object), -1 otherwise.  A dict's items are key, value, key, value ...
\* in insertion order.  The empty tuple is one shared object whatever it was
\* read from.
EmptyTupleId == -2
Obj(t, id, items) == [t |-> t, id |-> id, items |-> items]
NoneObj  == Obj("None", -1, <<>>)
TrueObj  == Obj("True", -1, <<>>)
FalseObj == Obj("False", -1, <<>>)
Pending  == Obj("pending", -1, <<>>)

IsAtom(o) == o.t \in {"None", "True", "False"}

RECURSIVE Strip(_)
\* the object's value, identities forgotten: Python's == on these objects
Strip(o) == Obj(o.t, -1, [i \in 1..Len(o.items) |-> Strip(o.items[i])])

RECURSIVE Hashable(_)
Hashable(o) ==
    CASE IsAtom(o) -> TRUE
      [] o.t = "tuple" -> \A i \in 1..Len(o.items) : Hashable(o.items[i])
      [] OTHER -> FALSE

\* PyDict_SetItem: an equal key keeps its place and takes the new value
DictSet(items, k, v) ==
    LET hit == {i \in 1..Len(items) : i % 2 = 1 /\ Strip(items[i]) = Strip(k)}
    IN  IF hit = {} THEN items \o <<k, v>>
        ELSE [i \in 1..Len(items) |-> IF (i - 1) \in hit THEN v ELSE items[i]]

\* the result of reading one object: st is "ok", "null" (the NULL marker, no
\* exception set), an exception kind, or "unmodelled" (a reference to a
\* container still being read, i.e. a cyclic object)
Res(st, obj, pos, refs) == [st |-> st, obj |-> obj, pos |-> pos, refs |-> refs]
Fail(kind) == Res(kind, NoneObj, 0, <<>>)

\* r_long: 4 bytes little endian, only called when the sign byte is < 128
RLong(b, pos) == b[pos] + 256 * b[pos + 1] + 65536 * b[pos + 2] + 16777216 * b[pos + 3]

RECURSIVE RObject(_, _, _, _, _)
RECURSIVE RItems(_, _, _, _, _, _, _)
RECURSIVE RDictItems(_, _, _, _, _, _)

\* _read_tuple's loop: n more items
RItems(b, pos, refs, depth, oom, n, acc) ==
    IF n = 0 THEN Res("ok", Obj("items", -1, acc), pos, refs)
    ELSE LET r == RObject(b, pos, refs, depth, oom)
         IN  IF r.st = "null" THEN Fail("TypeError")
             ELSE IF r.st # "ok" THEN r
             ELSE RItems(b, r.pos, r.refs, depth, oom, n - 1, Append(acc, r.obj))

\* TYPE_DICT's loop: key, value pairs until a NULL
RDictItems(b, pos, refs, depth, oom, acc) ==
    LET k == RObject(b, pos, refs, depth, oom)
    IN  IF k.st = "null" THEN Res("ok", Obj("items", -1, acc), k.pos, k.refs)
        ELSE IF k.st # "ok" THEN k
        ELSE LET v == RObject(b, k.pos, k.refs, depth, oom)
             IN  IF v.st = "null" THEN Res("ok", Obj("items", -1, acc), v.pos, v.refs)
                 ELSE IF v.st # "ok" THEN v
                 ELSE IF ~Hashable(k.obj) THEN Fail("TypeError")
                 ELSE RDictItems(b, v.pos, v.refs, depth, oom, DictSet(acc, k.obj, v.obj))

\* a container read with FLAG_REF enters the reference table when it is created
Container(t, flag, refs, r) ==
    IF r.st # "ok" THEN r
    ELSE LET idx == Len(refs)
             o   == IF t = "tuple" /\ r.obj.items = <<>>
                    THEN Obj(t, EmptyTupleId, <<>>)
                    ELSE Obj(t, IF flag THEN idx ELSE -1, r.obj.items)
         IN  Res("ok", o, r.pos, IF flag THEN [r.refs EXCEPT ![idx + 1] = o] ELSE r.refs)

Reserve(flag, refs) == IF flag THEN Append(refs, Pending) ELSE refs

\* r_object
RObject(b, pos, refs, depth, oom) ==
    IF pos > Len(b) THEN Fail("EOFError")
    ELSE IF depth + 1 > MaxDepth THEN Fail("ValueError")
    ELSE
      LET type == b[pos] % FLAG_REF
          flag == b[pos] >= FLAG_REF
          d    == depth + 1
      IN  CASE type = TYPE_NULL  -> Res("null", NoneObj, pos + 1, refs)
            [] type = TYPE_NONE  -> Res("ok", NoneObj, pos + 1, refs)
            [] type = TYPE_TRUE  -> Res("ok", TrueObj, pos + 1, refs)
            [] type = TYPE_FALSE -> Res("ok", FalseObj, pos + 1, refs)
            [] type = TYPE_SMALL_TUPLE ->
                 IF pos + 1 > Len(b) THEN Fail("EOFError")
                 ELSE Container("tuple", flag, refs,
                        RItems(b, pos + 2, Reserve(flag, refs), d, oom, b[pos + 1], <<>>))
            [] type = TYPE_TUPLE ->
                 IF pos + 4 > Len(b) THEN Fail("EOFError")
                 ELSE IF b[pos + 4] >= 128 THEN Fail("ValueError")
                 ELSE IF oom /\ RLong(b, pos + 1) >= HugeAlloc THEN Fail("MemoryError")
                 ELSE Container("tuple", flag, refs,
                        RItems(b, pos + 5, Reserve(flag, refs), d, oom,
                               RLong(b, pos + 1), <<>>))
            [] type = TYPE_DICT ->
                 Container("dict", flag, refs,
                           RDictItems(b, pos + 1, Reserve(flag, refs), d, oom, <<>>))
            [] type = TYPE_REF ->
                 IF pos + 4 > Len(b) THEN Fail("EOFError")
                 ELSE IF b[pos + 4] >= 128 THEN Fail("ValueError")
                 ELSE IF RLong(b, pos + 1) >= Len(refs) THEN Fail("ValueError")
                 ELSE IF refs[RLong(b, pos + 1) + 1].t = "pending" THEN Fail("unmodelled")
                 ELSE Res("ok", refs[RLong(b, pos + 1) + 1], pos + 5, refs)
            [] OTHER -> Fail("ValueError")

\* marshal.loads(b): bytes after the object are ignored; a NULL at top level is
\* a TypeError.  oom: whether a huge allocation fails in this environment.
Loads(b, oom) ==
    LET r == RObject(b, 1, <<>>, 0, oom)
    IN  [st |-> IF r.st = "null" THEN "TypeError" ELSE r.st, obj |-> r.obj]

(***************************************************************************)
(* marshal.dump (version 4): w_object / w_ref / w_complex_object.          *)
(***************************************************************************)
RECURSIVE Visit(_, _)
RECURSIVE VisitAll(_, _, _)

\* the identities reachable from o, and those reachable more than once
\* (reference count above one)
Visit(o, acc) ==
    IF o.id >= 0 /\ o.id \in acc.seen THEN [acc EXCEPT !.multi = @ \cup {o.id}]
    ELSE VisitAll(o.items, 1,
                  IF o.id >= 0 THEN [acc EXCEPT !.seen = @ \cup {o.id}] ELSE acc)

VisitAll(items, i, acc) ==
    IF i > Len(items) THEN acc ELSE VisitAll(items, i + 1, Visit(items[i], acc))

Shared(o) == Visit(o, [seen |-> {}, multi |-> {}]).multi

\* w_long
LE32(n) == <<n % 256, (n \div 256) % 256, (n \div 65536) % 256, (n \div 16777216) % 256>>

IndexOf(table, id) == (CHOOSE i \in 1..Len(table) : table[i] = id) - 1

AtomCode(o) ==
    CASE o.t = "None" -> TYPE_NONE
      [] o.t = "True" -> TYPE_TRUE
      [] OTHER -> TYPE_FALSE

\* the header of a tuple of n items: TYPE_SMALL_TUPLE below 256 items
TupleHeader(n, flag) ==
    IF n < 256 THEN <<TYPE_SMALL_TUPLE + flag, n>> ELSE <<TYPE_TUPLE + flag>> \o LE32(n)

RECURSIVE WObject(_, _, _, _, _)
RECURSIVE WItems(_, _, _, _, _)

WItems(items, i, depth, w, multi) ==
    IF i > Len(items) THEN w
    ELSE WItems(items, i + 1, depth, WObject(items[i], depth, w, multi, FALSE), multi)

\* w: [st, out, table]; table is the writer's reference table (identities in the
\* order they were first written).  top: the object handed to marshal.dump,
\* which the caller's variable and the call both reference.
WObject(o, depth, w, multi, top) ==
    IF w.st # "ok" THEN w
    ELSE IF depth + 1 > MaxDepth THEN [w EXCEPT !.st = "ValueError"]
    ELSE IF IsAtom(o) THEN [w EXCEPT !.out = Append(@, AtomCode(o))]
    ELSE
      LET tracked == top \/ o.id \in multi \/ o.id = EmptyTupleId
          known   == tracked /\ ~top /\ \E i \in 1..Len(w.table) : w.table[i] = o.id
          flag    == IF tracked THEN FLAG_REF ELSE 0
          w1      == [w EXCEPT !.table = IF tracked THEN Append(@, o.id) ELSE @]
      IN  IF known
          THEN [w EXCEPT !.out = @ \o <<TYPE_REF>> \o LE32(IndexOf(w.table, o.id))]
          ELSE IF o.t = "tuple"
          THEN WItems(o.items, 1, depth + 1,
                      [w1 EXCEPT !.out = @ \o TupleHeader(Len(o.items), flag)], multi)
          ELSE LET w2 == WItems(o.items, 1, depth + 1,
                                [w1 EXCEPT !.out = Append(@, TYPE_DICT + flag)], multi)
               IN  IF w2.st # "ok" THEN w2 ELSE [w2 EXCEPT !.out = Append(@, TYPE_NULL)]

\* marshal.dump(o, out), before the bytes reach the file: the serialization, or
\* ValueError "object too deeply nested to marshal"
Dumps(o) ==
    LET w == WObject(o, 0, [st |-> "ok", out |-> <<>>, table |-> <<>>], Shared(o), TRUE)
    IN  [st |-> w.st, bytes |-> IF w.st = "ok" THEN w.out ELSE <<>>]

(***************************************************************************)
(* The input files of the model: a run of padding bytes, then a payload.   *)
(***************************************************************************)
RECURSIVE Nest(_, _)
\* n one-item tuples around inner
Nest(n, inner) == IF n = 0 THEN inner ELSE <<TYPE_SMALL_TUPLE, 1>> \o Nest(n - 1, inner)

Flagged(b) == <<b[1] + FLAG_REF>> \o Tail(b)

Ref0 == <<TYPE_REF, 0, 0, 0, 0>>

\* {None: X, True: (..(X)..), None: None} with X = (..(None)..) read with FLAG_REF:
\* every object is read within the nesting limit, the second None entry replaces
\* X, and X is left at the bottom of the other entry, below the limit for dump
DeepPayload ==
    <<TYPE_DICT, TYPE_NONE>> \o Flagged(Nest(MaxDepth - 2, <<TYPE_NONE>>))
    \o <<TYPE_TRUE>> \o Nest(MaxDepth - 2, Ref0) \o <<TYPE_NONE, TYPE_NONE, TYPE_NULL>>

\* {None: X, True: (X,)} with X = (None,): an object referenced twice
SharedPayload ==
    <<TYPE_DICT, TYPE_NONE>> \o Flagged(<<TYPE_SMALL_TUPLE, 1, TYPE_NONE>>)
    \o <<TYPE_TRUE, TYPE_SMALL_TUPLE, 1>> \o Ref0 \o <<TYPE_NULL>>

Payloads ==
    { <<>>,
      <<TYPE_NONE>>,
      <<TYPE_SMALL_TUPLE, 2, TYPE_NONE>>,                  \* truncated tuple
      <<TYPE_SMALL_TUPLE, 1, TYPE_NULL>>,                  \* NULL inside a tuple
      <<TYPE_TUPLE, 1, 0, 0, 0, TYPE_TRUE, TYPE_UNKNOWN>>, \* (True,) and a stray byte
      <<TYPE_TUPLE, 255, 255, 255, 127, TYPE_FALSE>>,      \* a tuple of 2^31-1 items
      SharedPayload,
      DeepPayload }

PadBytes == {TYPE_UNKNOWN, TYPE_NULL, TYPE_TUPLE}

Pad(n, byte) == [i \in 1..n |-> byte]

Inputs == {Pad(n, p) \o q : n \in 0..MaxPad, p \in PadBytes, q \in Payloads}

(***************************************************************************)
(* The lines the program prints.                                           *)
(***************************************************************************)
Line(msg, n, detail) == [msg |-> msg, n |-> n, detail |-> detail]
UsageLine      == Line("Usage: marshal_extract.py <input.pyc> <output.marshaled>", -1, "")
SuccessLine(k) == Line("[+] Code object extracted (header_offset=N bytes)", k, "")
FailedLine     == Line("[-] Failed to extract valid code object", -1, "")
\* '[-] Error: {e}': the message names what failed
ErrorLine(kind) == Line("[-] Error: ", -1, kind)

(***************************************************************************)
(* The program.                                                            *)
(***************************************************************************)
NoFile == [exists |-> FALSE, data |-> <<>>]
File(data) == [exists |-> TRUE, data |-> data]

Init ==
    /\ argvLen \in {2, 3, 4}
    /\ inKind \in {"ok", "FileNotFoundError"}
    /\ inFile \in Inputs
    /\ outPerm \in {"ok", "PermissionError"}
    /\ outFile0 \in {NoFile, File(<<TYPE_UNKNOWN, TYPE_UNKNOWN>>)}
    /\ outFile = outFile0
    /\ pc = "main"
    /\ raw = <<>>
    /\ offset = 0
    /\ code = NoneObj
    /\ stdout = <<>>
    /\ stderr = <<>>
    /\ status = -1
    /\ called = FALSE
    /\ inOpened = FALSE
    /\ attempted = <<>>
    /\ opened = <<>>
    /\ raised = <<>>

Exc(kind, step) == [kind |-> kind, step |-> step, offset |-> offset]

\* a variant that only rejects too few arguments
ArgsOkAtLeast(n) == n >= 3

\* line 29: len(sys.argv) != 3
ArgsOk(n) == n = 3

\* a variant that scans 32 offsets whatever the length of the input
ScanBoundFixed(r) == ScanLimit

\* line 12: range(0, min(32, len(raw)))
ScanBound(r) == Min(ScanLimit, Len(r))

\* a variant that also skips MemoryError
SkippedAlsoMemory(kind) == kind \in {"ValueError", "EOFError", "TypeError", "MemoryError"}

\* line 19: except (ValueError, EOFError, TypeError)
Skipped(kind) == kind \in {"ValueError", "EOFError", "TypeError"}

\* lines 24-26: except Exception as e: print to stderr, return 1
OuterRaise(kind, step) ==
    /\ raised' = Append(raised, Exc(kind, step))
    /\ stderr' = Append(stderr, ErrorLine(kind))
    /\ status' = 1
    /\ pc' = "done"
    /\ UNCHANGED <<stdout, offset>>

\* a variant that reports every skipped offset on standard error
InnerRaiseLogging(kind, step) ==
    IF Skipped(kind)
    THEN /\ raised' = Append(raised, Exc(kind, step))
         /\ offset' = offset + 1
         /\ pc' = "loop"
         /\ stderr' = Append(stderr, ErrorLine(kind))
         /\ UNCHANGED <<stdout, status>>
    ELSE OuterRaise(kind, step)

\* lines 19-20: an exception raised inside the loop's try: continue with the
\* next offset when it is one of the three kinds, else it reaches lines 24-26
InnerRaise(kind, step) ==
    IF Skipped(kind)
    THEN /\ raised' = Append(raised, Exc(kind, step))
         /\ offset' = offset + 1
         /\ pc' = "loop"
         /\ UNCHANGED <<stdout, stderr, status>>
    ELSE OuterRaise(kind, step)

\* lines 29-32
Main ==
    /\ pc = "main"
    /\ IF ArgsOk(argvLen)
       THEN /\ called' = TRUE
            /\ pc' = "read"
            /\ UNCHANGED <<stderr, status>>
       ELSE /\ stderr' = Append(stderr, UsageLine)
            /\ status' = 1
            /\ pc' = "done"
            /\ UNCHANGED called
    /\ UNCHANGED <<argvLen, inKind, inFile, outPerm, outFile0, outFile, raw, offset,
                   code, stdout, inOpened, attempted, opened, raised>>

\* a variant that takes an unreadable input for an empty one
ReadInputLenient ==
    /\ pc = "read"
    /\ inOpened' = (inKind = "ok")
    /\ raw' = IF inKind = "ok" THEN inFile ELSE <<>>
    /\ offset' = 0
    /\ pc' = "loop"
    /\ UNCHANGED <<stdout, stderr, status, raised>>
    /\ UNCHANGED <<argvLen, inKind, inFile, outPerm, outFile0, outFile, code, called,
                   attempted, opened>>

\* lines 9-10
ReadInput ==
    /\ pc = "read"
    /\ IF inKind = "ok"
       THEN /\ inOpened' = TRUE
            /\ raw' = inFile
            /\ offset' = 0
            /\ pc' = "loop"
            /\ UNCHANGED <<stdout, stderr, status, raised>>
       ELSE /\ OuterRaise(inKind, "read")
            /\ UNCHANGED <<raw, inOpened>>
    /\ UNCHANGED <<argvLen, inKind, inFile, outPerm, outFile0, outFile, code, called,
                   attempted, opened>>

\* lines 12-14 and 19-20: the next offset, marshal.loads(raw[offset:])
TryLoads ==
    /\ pc = "loop"
    /\ offset < ScanBound(raw)
    /\ attempted' = Append(attempted, offset)
    /\ \E oom \in BOOLEAN :
         LET r == Loads(Slice(raw, offset), oom)
         IN  IF r.st = "ok"
             THEN /\ code' = r.obj
                  /\ pc' = "open_out"
                  /\ UNCHANGED <<offset, stdout, stderr, status, raised>>
             ELSE /\ InnerRaise(r.st, "loads")
                  /\ UNCHANGED code
    /\ UNCHANGED <<argvLen, inKind, inFile, outPerm, outFile0, outFile, raw, called,
                   inOpened, opened>>

\* lines 22-23: the range is exhausted
Exhausted ==
    /\ pc = "loop"
    /\ ~(offset < ScanBound(raw))
    /\ stderr' = Append(stderr, FailedLine)
    /\ status' = 1
    /\ pc' = "done"
    /\ UNCHANGED <<argvLen, inKind, inFile, outPerm, outFile0, outFile, raw, offset,
                   code, stdout, called, inOpened, attempted, opened, raised>>

\* a variant that keeps the bytes of an existing file (a mode without truncation)
OpenKeep(f) == File(f.data)

\* open(..., 'wb') creates the file or truncates it
OpenTruncate(f) == File(<<>>)

\* line 15: open(output_path, 'wb')
OpenOutput ==
    /\ pc = "open_out"
    /\ IF outPerm = "ok"
       THEN /\ outFile' = OpenTruncate(outFile)
            /\ opened' = Append(opened, offset)
            /\ pc' = "dump"
            /\ UNCHANGED <<offset, stdout, stderr, status, raised>>
       ELSE /\ InnerRaise(outPerm, "open")
            /\ UNCHANGED <<outFile, opened>>
    /\ UNCHANGED <<argvLen, inKind, inFile, outPerm, outFile0, raw, code, called,
                   inOpened, attempted>>

\* line 16 and the end of the with block: marshal.dump(code, out), close.
\* The write may fail (disk full) after any part of the bytes.
DumpCode ==
    /\ pc = "dump"
    /\ LET d == Dumps(code)
       IN  IF d.st = "ok"
           THEN \/ /\ outFile' = File(outFile.data \o d.bytes)
                   /\ pc' = "print"
                   /\ UNCHANGED <<offset, stdout, stderr, status, raised>>
                \/ \E n \in 0..(Len(d.bytes) - 1) :
                     /\ outFile' = File(outFile.data \o SubSeq(d.bytes, 1, n))
                     /\ InnerRaise("OSError", "dump")
           ELSE /\ InnerRaise(d.st, "dump")
                /\ UNCHANGED outFile
    /\ UNCHANGED <<argvLen, inKind, inFile, outPerm, outFile0, raw, code, called,
                   inOpened, attempted, opened>>

\* lines 17-18
PrintSuccess ==
    /\ pc = "print"
    /\ stdout' = Append(stdout, SuccessLine(offset))
    /\ status' = 0
    /\ pc' = "done"
    /\ UNCHANGED <<argvLen, inKind, inFile, outPerm, outFile0, outFile, raw, offset,
                   code, stderr, called, inOpened, attempted, opened, raised>>

Next == Main \/ ReadInput \/ TryLoads \/ Exhausted \/ OpenOutput \/ DumpCode \/ PrintSuccess

Spec == Init /\ [][Next]_vars

(***************************************************************************)
(* Properties.                                                             *)
(***************************************************************************)
Last(q) == q[Len(q)]

ThreeKinds == {"ValueError", "EOFError", "TypeError"}

\* the run of extract_code_object is over
Returned == pc = "done" /\ called

\* raw[k:] deserializes (in an environment where memory suffices)
Deserializes(b, k) == Loads(Slice(b, k), FALSE).st = "ok"

\* k is the smallest offset below min(32, len(b)) at which b[k:] deserializes
SmallestValid(b, k) ==
    /\ k < 32 /\ k < Len(b)
    /\ Deserializes(b, k)
    /\ \A j \in 0..(k - 1) : ~Deserializes(b, j)

\* no exception outside the three skipped kinds was raised: the environment
\* did not fail (no MemoryError, no OSError)
NoEnvironmentFailure == \A i \in DOMAIN raised : raised[i].kind \in ThreeKinds

\* every input of the model is within the subset of marshal that Loads covers
InputsModelled ==
    \A k \in 0..Len(inFile) : \A oom \in BOOLEAN :
        Loads(Slice(inFile, k), oom).st # "unmodelled"

\* C1: when k is the smallest offset at which raw[k:] deserializes, the run
\* (in which the environment does not fail) returns 0 reporting header_offset=k,
\* and the output file is never opened on behalf of an offset below k.
C1_SmallestOffsetReported ==
    (Returned /\ inKind = "ok" /\ NoEnvironmentFailure) =>
        \A k \in 0..31 :
            SmallestValid(inFile, k) =>
                /\ status = 0
                /\ stdout = <<SuccessLine(k)>>
                /\ \A i \in DOMAIN opened : opened[i] >= k

\* C2: a run that ends with the exhaustion message returns 1 and has not
\* created, truncated or modified the output file.
C2_ExhaustionLeavesOutput ==
    (Returned /\ stderr = <<FailedLine>>) =>
        /\ status = 1
        /\ opened = <<>>
        /\ outFile = outFile0

\* C3: a marshal.loads failure of one of the three kinds prints nothing and
\* moves to the next offset (offsets are attempted in the order 0, 1, 2, ...);
\* a marshal.loads failure of any other kind ends the scan at that offset,
\* prints '[-] Error: <message>' and not the exhaustion message, and returns 1.
C3_LoadsFailureTriage ==
    /\ [][ Len(attempted') = Len(attempted) + 1 =>
             /\ Last(attempted') = Len(attempted)
             /\ Len(raised') = Len(raised) + 1 =>
                  IF Last(raised').kind \in ThreeKinds
                  THEN /\ stdout' = stdout /\ stderr' = stderr /\ status' = -1
                       /\ pc' = "loop" /\ offset' = Last(attempted') + 1
                  ELSE /\ pc' = "done" /\ status' = 1 /\ stdout' = stdout
                       /\ stderr' = <<ErrorLine(Last(raised').kind)>> ]_vars
    /\ [](\A i \in DOMAIN raised :
            (raised[i].step = "loads" /\ raised[i].kind \notin ThreeKinds) =>
                /\ i = Len(raised)
                /\ pc = "done" /\ status = 1
                /\ Last(attempted) = raised[i].offset
                /\ stderr = <<ErrorLine(raised[i].kind)>>)

\* a run that skipped at least one offset and then ended on a MemoryError of
\* marshal.loads
C3_Witness ==
    /\ pc = "done"
    /\ Len(raised) >= 2
    /\ raised[1].step = "loads" /\ raised[1].kind \in ThreeKinds
    /\ Last(raised).step = "loads" /\ Last(raised).kind = "MemoryError"

\* C4: an exception raised by opening or writing the output file always ends
\* the scan at the current offset with one '[-] Error: <message>' line and
\* status 1.
C4_OutputFailureIsFatal ==
    \A i \in DOMAIN raised :
        raised[i].step \in {"open", "dump"} =>
            /\ i = Len(raised)
            /\ pc = "done" /\ status = 1
            /\ stdout = <<>>
            /\ stderr = <<ErrorLine(raised[i].kind)>>
            /\ Last(attempted) = raised[i].offset

\* C5: every offset attempted is in [0, min(32, len(raw))); an empty input is
\* never attempted and ends with the exhaustion message and status 1.
C5_OffsetsWithinBound ==
    /\ \A i \in DOMAIN attempted :
         /\ 0 <= attempted[i]
         /\ attempted[i] < 32
         /\ attempted[i] < Len(raw)
    /\ (Returned /\ inKind = "ok" /\ inFile = <<>>) =>
         /\ attempted = <<>>
         /\ stderr = <<FailedLine>>
         /\ status = 1

\* a finished run over an input shorter than 32 bytes that attempted every
\* offset of it
C5_Witness ==
    /\ pc = "done"
    /\ Len(raw) > 0 /\ Len(raw) < 32
    /\ Len(attempted) = Len(raw)

\* C6: the output file is opened at most once in a run, and once an offset's
\* deserialize-and-write step has completed no further offset is attempted.
C6_AtMostOneExtraction ==
    /\ Len(opened) <= 1
    /\ (pc = "print" \/ (pc = "done" /\ status = 0)) =>
         /\ Last(attempted) = offset
         /\ Last(opened) = offset

\* C7: a finished run of extract_code_object has printed exactly one line: with
\* status 0 the success line on standard output; with status 1 the exhaustion
\* message or '[-] Error: <message>' on standard error.
C7_ExactlyOneLine ==
    Returned =>
        /\ status \in {0, 1}
        /\ Len(stdout) + Len(stderr) = 1
        /\ status = 0 =>
             /\ stderr = <<>>
             /\ \E n \in 0..31 :
                  stdout = <<[msg |-> "[+] Code object extracted (header_offset=N bytes)",
                              n |-> n, detail |-> ""]>>
        /\ status = 1 =>
             /\ stdout = <<>>
             /\ stderr[1].msg \in {"[-] Failed to extract valid code object", "[-] Error: "}

\* a successful run that skipped failing offsets before the one it reports
C7_Witness ==
    /\ Returned
    /\ status = 0
    /\ Len(raised) > 0

\* C8: when the input cannot be read the run returns 1, prints
\* '[-] Error: <message>' with the reason of the I/O failure, attempts no
\* offset and leaves the output file alone.
C8_UnreadableInput ==
    (Returned /\ inKind # "ok") =>
        /\ status = 1
        /\ stdout = <<>>
        /\ stderr = <<[msg |-> "[-] Error: ", n |-> -1, detail |-> inKind]>>
        /\ attempted = <<>>
        /\ opened = <<>>
        /\ outFile = outFile0

\* a finished run on a missing input file
C8_Witness ==
    /\ Returned
    /\ inKind = "FileNotFoundError"
    /\ Len(raised) = 1

\* C9: with a number of positional arguments other than 2 the program prints
\* the usage message on standard error and exits with status 1; the function
\* is never entered and no file is opened.
C9_UsageWithoutIO ==
    argvLen # 3 =>
        /\ ~called
        /\ ~inOpened
        /\ pc \in {"main", "done"}
        /\ attempted = <<>>
        /\ opened = <<>>
        /\ outFile = outFile0
        /\ pc = "done" =>
             /\ status = 1
             /\ stdout = <<>>
             /\ stderr = <<UsageLine>>

\* the program has exited after being given three positional arguments
C9_Witness ==
    /\ pc = "done"
    /\ argvLen = 4
    /\ outFile0.exists

\* C10: when a run returns 0 reporting header_offset=k, the output file holds
\* exactly the serialization of the object deserialized from raw[k:], and
\* deserializing the output file yields an equal object.
C10_RoundTrip ==
    (pc = "done" /\ status = 0) =>
        \E k \in 0..31 :
            /\ stdout = <<SuccessLine(k)>>
            /\ LET l == Loads(Slice(raw, k), FALSE)
                   d == Dumps(l.obj)
                   back == Loads(outFile.data, FALSE)
               IN  /\ l.st = "ok"
                   /\ d.st = "ok"
                   /\ outFile = File(d.bytes)
                   /\ back.st = "ok"
                   /\ Strip(back.obj) = Strip(l.obj)

\* a successful run at a later offset over an existing output file, where the
\* object is a dict and the bytes written differ from the bytes it was read from
C10_Witness ==
    /\ pc = "done" /\ status = 0
    /\ offset > 0
    /\ outFile0.exists
    /\ code.t = "dict"
    /\ outFile.data # SubSeq(raw, offset + 1, offset + Len(outFile.data))

====
